---- MODULE Spec2Model ----
(***************************************************************************)
(* ImageMetaLocator: the main window's image pipeline                      *)
(* (src/ui/main_window.py, src/core/metadata.py) and the height            *)
(* recalculation dialog (src/ui/widgets.py).                               *)
(*                                                                         *)
(* Numbers.  Python floats are modelled as exact rationals <<num, den>>    *)
(* in lowest terms with den > 0; Python's None is the empty tuple <<>>.    *)
(* A Python int h stored where a float may also be stored is <<h, 1>>.     *)
(* An optional dict entry (metadata['flight_analysis']) is a sequence of   *)
(* length 0 (key absent) or 1 (the value).                                 *)
(***************************************************************************)
EXTENDS Integers, Sequences, FiniteSets, TLC

None == <<>>

Abs(n) == IF n < 0 THEN -n ELSE n

\* Euclid's algorithm, as a function so that each argument is evaluated once
Euclid[a \in Nat, b \in Nat] == IF b = 0 THEN a ELSE Euclid[b, a % b]
GCD(a, b) == Euclid[a, b]

\* n/d in lowest terms, d # 0
Lowest[n \in Int, d \in Int] ==
    LET s == IF d < 0 THEN -1 ELSE 1
        g == GCD(Abs(n), Abs(d))
    IN  <<(s * n) \div g, (s * d) \div g>>
Rat(n, d) == Lowest[n, d]

RInt(n) == <<n, 1>>
RAdd(x, y) == Rat(x[1] * y[2] + y[1] * x[2], x[2] * y[2])
RMul(x, y) == Rat(x[1] * y[1], x[2] * y[2])
RDiv(x, y) == Rat(x[1] * y[2], x[2] * y[1])
RLt(x, y) == x[1] * y[2] < y[1] * x[2]
RLe(x, y) == x[1] * y[2] <= y[1] * x[2]

\* Python truthiness of an optional number: None and 0 are falsy.
Truthy(x) == x # None /\ x[1] # 0

\* Python int(x): truncation toward zero.
PyInt(x) == IF x[1] >= 0 THEN x[1] \div x[2] ELSE -((-x[1]) \div x[2])

\* Rounding of x to the nearest multiple of 1/scale, as a spin box with that
\* many decimals stores a value.  A tie is rounded away from zero; the
\* input sets below hold no tie.
RoundTo(x, scale) ==
    LET n == Abs(x[1]) * scale
        q == (2 * n + x[2]) \div (2 * x[2])
    IN  Rat(IF x[1] < 0 THEN -q ELSE q, scale)

RClamp(x, lo, hi) == IF RLt(x, lo) THEN lo ELSE IF RLt(hi, x) THEN hi ELSE x
IClamp(n, lo, hi) == IF n < lo THEN lo ELSE IF n > hi THEN hi ELSE n

(***************************************************************************)
(* HeightRecalculationDialog (src/ui/widgets.py)                           *)
(***************************************************************************)

SelectPrompt == "Select a drone for reference..."
ManualSetup == "Other - Manual Setup"

drone_presets ==
    ("DJI Phantom 4 PRO" :> Rat(136, 100)) @@ ("DJI Phantom 4" :> Rat(219, 100)) @@
    ("DJI Mavic 2 PRO" :> Rat(117, 100)) @@ ("DJI Mavic 2 ZOOM" :> Rat(182, 100))

PresetNames == DOMAIN drone_presets

\* manual_resolution_spin: QDoubleSpinBox, range 0.01 .. 10.0, 3 decimals
ResolutionSpinMin == Rat(1, 100)
ResolutionSpinMax == Rat(10, 1)
ResolutionDecimalsScale == 1000
ResolutionSpinDefault == Rat(5, 100)

\* manual_height_input: QSpinBox, range 1 .. 1000, initial value 50
ManualHeightInputMin == 1
ManualHeightInputMax == 1000
ManualHeightInputDefault == 50

\* manual_height_spin (reference altitude): QSpinBox 1 .. 500, initial 50
ManualHeightSpinDefault == 50
\* manual_gsd_spin (reference GSD): QDoubleSpinBox 0.1 .. 10.0, initial 1.5
ManualGsdSpinDefault == Rat(15, 10)

PresetReferenceHeight == 50

\* A dialog whose tiff_resolution starts at the value the resolution spin
\* box shows.
NewDialog_ResolutionFromSpin(flight_height, gps_altitude, terrain_elevation) ==
    [ current_flight_height   |-> flight_height,
      gps_altitude            |-> gps_altitude,
      terrain_elevation       |-> terrain_elevation,
      recalculated_height     |-> None,
      tiff_resolution         |-> ResolutionSpinDefault,
      drone_reference_height  |-> PresetReferenceHeight,
      drone_reference_gsd     |-> None,
      tiff_label              |-> "none",
      resolution_label        |-> None,
      manual_resolution_spin  |-> ResolutionSpinDefault,
      preset_combo            |-> SelectPrompt,
      manual_drone_group      |-> FALSE,
      manual_height_spin      |-> ManualHeightSpinDefault,
      manual_gsd_spin         |-> ManualGsdSpinDefault,
      calculated_height_label |-> None,
      enable_manual_checkbox  |-> FALSE,
      manual_height_input     |-> ManualHeightInputDefault,
      manual_result_label     |-> <<"prompt">>,
      calculate_button        |-> FALSE ]

\* The dialog object right after __init__ and setup_ui.
NewDialog(flight_height, gps_altitude, terrain_elevation) ==
    [ current_flight_height   |-> flight_height,
      gps_altitude            |-> gps_altitude,
      terrain_elevation       |-> terrain_elevation,
      recalculated_height     |-> None,
      tiff_resolution         |-> None,
      drone_reference_height  |-> PresetReferenceHeight,
      drone_reference_gsd     |-> None,
      tiff_label              |-> "none",
      resolution_label        |-> None,
      manual_resolution_spin  |-> ResolutionSpinDefault,
      preset_combo            |-> SelectPrompt,
      manual_drone_group      |-> FALSE,
      manual_height_spin      |-> ManualHeightSpinDefault,
      manual_gsd_spin         |-> ManualGsdSpinDefault,
      calculated_height_label |-> None,
      enable_manual_checkbox  |-> FALSE,
      manual_height_input     |-> ManualHeightInputDefault,
      manual_result_label     |-> <<"prompt">>,
      calculate_button        |-> FALSE ]

\* update_final_height that only refreshes the label and never stores the
\* manual height.
update_final_height_LabelOnly(d) ==
    IF d.enable_manual_checkbox
    THEN [d EXCEPT !.manual_result_label = <<"manual", RInt(d.manual_height_input)>>]
    ELSE d

\* update_final_height
update_final_height(d) ==
    IF d.enable_manual_checkbox
    THEN [d EXCEPT !.manual_result_label = <<"manual", RInt(d.manual_height_input)>>,
                   !.recalculated_height = RInt(d.manual_height_input)]
    ELSE IF Truthy(d.recalculated_height)
         THEN [d EXCEPT !.manual_result_label = <<"calculated", d.recalculated_height>>]
         ELSE d

\* on_manual_height_changed
on_manual_height_changed(d) == update_final_height(d)

\* manual_height_input.setValue(v): clamp to the range, store, and emit
\* valueChanged (-> on_manual_height_changed) only when the value changed.
manual_height_input_setValue(d, v) ==
    LET w == IClamp(v, ManualHeightInputMin, ManualHeightInputMax)
    IN  IF w = d.manual_height_input THEN d
        ELSE on_manual_height_changed([d EXCEPT !.manual_height_input = w])

\* The ratio formula with the metre-to-centimetre conversion left out.
FlightHeightFormula_NoCm(tiff_resolution, reference_gsd, reference_height) ==
    RMul(RDiv(tiff_resolution, reference_gsd), RInt(reference_height))

\* The ratio formula of calculate_flight_height.
FlightHeightFormula(tiff_resolution, reference_gsd, reference_height) ==
    RMul(RDiv(RMul(tiff_resolution, RInt(100)), reference_gsd), RInt(reference_height))

\* calculate_flight_height without its last step, the update of the manual
\* adjustment.
calculate_flight_height_NoManualUpdate(d) ==
    IF ~Truthy(d.tiff_resolution) \/ ~Truthy(d.drone_reference_gsd)
    THEN [d EXCEPT !.calculated_height_label = None, !.calculate_button = FALSE]
    ELSE LET flight_height == FlightHeightFormula(d.tiff_resolution,
                                  d.drone_reference_gsd, d.drone_reference_height)
         IN  [d EXCEPT !.recalculated_height = flight_height,
                       !.calculated_height_label = flight_height,
                       !.calculate_button = TRUE]

\* calculate_flight_height
calculate_flight_height(d) ==
    IF ~Truthy(d.tiff_resolution) \/ ~Truthy(d.drone_reference_gsd)
    THEN [d EXCEPT !.calculated_height_label = None, !.calculate_button = FALSE]
    ELSE LET flight_height == FlightHeightFormula(d.tiff_resolution,
                                  d.drone_reference_gsd, d.drone_reference_height)
             d1 == [d EXCEPT !.recalculated_height = flight_height,
                             !.calculated_height_label = flight_height,
                             !.calculate_button = TRUE]
         IN  IF d1.enable_manual_checkbox
             THEN update_final_height(manual_height_input_setValue(d1, PyInt(flight_height)))
             ELSE d1

\* on_resolution_changed that stores the resolution without recomputing.
on_resolution_changed_NoRecompute(d) ==
    [d EXCEPT !.tiff_resolution = d.manual_resolution_spin]

\* on_resolution_changed
on_resolution_changed(d) ==
    calculate_flight_height([d EXCEPT !.tiff_resolution = d.manual_resolution_spin])

\* manual_resolution_spin.setValue(v): round to 3 decimals, clamp to the
\* range, store, and emit valueChanged only when the value changed.
manual_resolution_spin_setValue(d, v) ==
    LET w == RClamp(RoundTo(v, ResolutionDecimalsScale), ResolutionSpinMin, ResolutionSpinMax)
    IN  IF w = d.manual_resolution_spin THEN d
        ELSE on_resolution_changed([d EXCEPT !.manual_resolution_spin = w])

\* upload_tiff with a file chosen and a raster that rasterio opens; res is
\* the raster's pair of axis pixel sizes (src.res).
upload_tiff_read(d, res) ==
    LET resolution == RDiv(RAdd(res[1], res[2]), RInt(2))
        d1 == [d EXCEPT !.tiff_label = "file",
                        !.tiff_resolution = resolution,
                        !.resolution_label = resolution]
    IN  calculate_flight_height(manual_resolution_spin_setValue(d1, resolution))

\* An except branch that also forgets the resolution.
upload_tiff_failed_ClearsResolution(d) ==
    calculate_flight_height([d EXCEPT !.tiff_label = "error", !.tiff_resolution = None])

\* upload_tiff with a file chosen that rasterio cannot open: the except
\* branch shows the warning box and sets the label to the error text.
upload_tiff_failed(d) ==
    [d EXCEPT !.tiff_label = "error"]

\* on_manual_drone_changed
on_manual_drone_changed(d) ==
    IF d.preset_combo = ManualSetup
    THEN calculate_flight_height(
             [d EXCEPT !.drone_reference_height = d.manual_height_spin,
                       !.drone_reference_gsd = d.manual_gsd_spin])
    ELSE d

\* on_preset_changed that returns on the prompt entry without recomputing.
on_preset_changed_NoRecompute(d0, text) ==
    LET d == [d0 EXCEPT !.preset_combo = text]
    IN  IF text = SelectPrompt
        THEN [d EXCEPT !.drone_reference_gsd = None, !.manual_drone_group = FALSE]
        ELSE IF text = ManualSetup
        THEN calculate_flight_height(
                 [d EXCEPT !.manual_drone_group = TRUE,
                           !.drone_reference_height = d.manual_height_spin,
                           !.drone_reference_gsd = d.manual_gsd_spin])
        ELSE calculate_flight_height(
                 IF text \in PresetNames
                 THEN [d EXCEPT !.manual_drone_group = FALSE,
                                !.drone_reference_gsd = drone_presets[text],
                                !.drone_reference_height = PresetReferenceHeight]
                 ELSE [d EXCEPT !.manual_drone_group = FALSE])

\* on_preset_changed that leaves the reference height of a preset as it is.
on_preset_changed_KeepsHeight(d0, text) ==
    LET d == [d0 EXCEPT !.preset_combo = text]
    IN  IF text = SelectPrompt
        THEN calculate_flight_height(
                 [d EXCEPT !.drone_reference_gsd = None, !.manual_drone_group = FALSE])
        ELSE IF text = ManualSetup
        THEN calculate_flight_height(
                 [d EXCEPT !.manual_drone_group = TRUE,
                           !.drone_reference_height = d.manual_height_spin,
                           !.drone_reference_gsd = d.manual_gsd_spin])
        ELSE calculate_flight_height(
                 IF text \in PresetNames
                 THEN [d EXCEPT !.manual_drone_group = FALSE,
                                !.drone_reference_gsd = drone_presets[text]]
                 ELSE [d EXCEPT !.manual_drone_group = FALSE])

\* on_preset_changed(text), after the combo box took the new text
on_preset_changed(d0, text) ==
    LET d == [d0 EXCEPT !.preset_combo = text]
    IN  IF text = SelectPrompt
        THEN calculate_flight_height(
                 [d EXCEPT !.drone_reference_gsd = None, !.manual_drone_group = FALSE])
        ELSE IF text = ManualSetup
        THEN calculate_flight_height(
                 [d EXCEPT !.manual_drone_group = TRUE,
                           !.drone_reference_height = d.manual_height_spin,
                           !.drone_reference_gsd = d.manual_gsd_spin])
        ELSE calculate_flight_height(
                 IF text \in PresetNames
                 THEN [d EXCEPT !.manual_drone_group = FALSE,
                                !.drone_reference_gsd = drone_presets[text],
                                !.drone_reference_height = PresetReferenceHeight]
                 ELSE [d EXCEPT !.manual_drone_group = FALSE])

\* toggle_manual_adjustment, after the checkable button flipped
toggle_manual_adjustment(d0) ==
    LET d == [d0 EXCEPT !.enable_manual_checkbox = ~d0.enable_manual_checkbox]
    IN  IF d.enable_manual_checkbox
        THEN update_final_height(
                 IF Truthy(d.recalculated_height)
                 THEN manual_height_input_setValue(d, PyInt(d.recalculated_height))
                 ELSE d)
        ELSE update_final_height([d EXCEPT !.manual_result_label = <<"prompt">>])

\* get_recalculated_height
get_recalculated_height(d) == d.recalculated_height

(***************************************************************************)
(* Images and metadata extraction (src/core/metadata.py)                   *)
(***************************************************************************)

\* An image file as the environment provides it: its path, whether its EXIF
\* data can be read, whether it is a .dng file (read with exifread) or a
\* .jpg file (read with PIL), its GPS tags (None: no such tag; latitude and
\* longitude as degrees, minutes, seconds with their reference letter) and
\* the terrain elevation each external elevation source would answer for
\* its position (None: the source has no answer).
Image(path, readable, dng, lat, latref, lon, lonref, alt, samples) ==
    [ path |-> path, readable |-> readable, dng |-> dng,
      GPSLatitude |-> lat, GPSLatitudeRef |-> latref,
      GPSLongitude |-> lon, GPSLongitudeRef |-> lonref,
      GPSAltitude |-> alt, samples |-> samples ]

Images ==
    { Image(1, TRUE, FALSE, <<48, 9, 0>>, "N", <<17, 6, 0>>, "E", RInt(250),
            <<RInt(200), RInt(210)>>),
      Image(2, TRUE, FALSE, <<48, 9, 0>>, "N", <<17, 6, 0>>, "E", RInt(150),
            <<None, None>>),
      Image(3, FALSE, FALSE, None, "N", None, "E", None, <<None, None>>) }

\* The images of the extraction and export path: those above, images taken
\* on the equator at sea level and on the prime meridian, an image with an
\* altitude tag only, and a .dng file.
WindowImages ==
    Images \cup
    { Image(4, TRUE, FALSE, <<0, 0, 0>>, "N", <<17, 6, 0>>, "E", RInt(0),
            <<None, None>>),
      Image(5, TRUE, FALSE, <<48, 9, 0>>, "S", <<0, 0, 0>>, "W", RInt(250),
            <<None, None>>),
      Image(6, TRUE, FALSE, None, "N", None, "E", RInt(250), <<None, None>>),
      Image(7, TRUE, TRUE, <<48, 9, 0>>, "N", <<17, 6, 0>>, "E", RInt(250),
            <<None, None>>) }

GpsTags == {"GPSLatitude", "GPSLongitude", "GPSAltitude"}

\* get_exif_data: the keys of the dict stored under "GPSInfo".  PIL names a
\* tag by GPSTAGS, exifread by "GPS " and the tag's name; in both branches
\* the value of "GPSInfo" is a dict.
get_exif_data(image) ==
    LET present == {tag \in GpsTags : image[tag] # None}
    IN  IF image.dng THEN {"GPS " \o tag : tag \in present} ELSE present

\* dms_to_dd
dms_to_dd(dms, ref) ==
    LET dd == RAdd(RAdd(RInt(dms[1]), Rat(dms[2], 60)), Rat(dms[3], 3600))
    IN  IF ref \in {"S", "W"} THEN RMul(dd, RInt(-1)) ELSE dd

\* get_coordinates: alt = gps_info.get("GPSAltitude");
\* alt_val = float(alt) if alt else None
get_coordinates_alt(image) ==
    IF "GPSAltitude" \in get_exif_data(image) /\ Truthy(image.GPSAltitude)
    THEN image.GPSAltitude ELSE None

\* get_coordinates: <<lat, lon, alt_val>>.  gps_info is a dict for every
\* file type, so the isinstance(gps_info, dict) branch is the one taken.
get_coordinates(image) ==
    IF get_exif_data(image) = {} THEN <<None, None, None>>
    ELSE << dms_to_dd(image.GPSLatitude, image.GPSLatitudeRef),
            dms_to_dd(image.GPSLongitude, image.GPSLongitudeRef),
            get_coordinates_alt(image) >>

\* MetadataWorker.run ends in its except branch: the file cannot be read,
\* or get_coordinates looks up gps_info["GPSLatitude"] or
\* gps_info["GPSLongitude"] and the dict has no such key (KeyError).
ExtractionRaises(image) ==
    \/ ~image.readable
    \/ /\ get_exif_data(image) # {}
       /\ ~({"GPSLatitude", "GPSLongitude"} \subseteq get_exif_data(image))

\* extract_metadata: the dict it returns; address and date are not
\* modelled.  The dict has no 'flight_analysis' key.
extract_metadata(image) ==
    LET lat == get_coordinates(image)[1]
        lon == get_coordinates(image)[2]
        alt == get_coordinates(image)[3]
    IN  [ filename        |-> image.path,
          coordinates     |-> IF Truthy(lat) /\ Truthy(lon) THEN <<lat, lon>> ELSE None,
          altitude        |-> alt,
          flight_analysis |-> <<>> ]

(***************************************************************************)
(* ImageMetaLocator (src/ui/main_window.py)                                *)
(***************************************************************************)

HeightLimit == 120

\* display_metadata_content: what the metadata panel shows for the metadata
\* dict with identity id and value md.
display_metadata_content(id, md) ==
    IF md.flight_analysis # <<>>
    THEN LET flight == md.flight_analysis[1]
             flight_height == flight.flight_height
         IN  [ metadata |-> id,
               altitude |-> IF Truthy(md.altitude) THEN md.altitude ELSE None,
               section  |-> "analysis",
               header   |-> IF flight.recalculated
                            THEN IF flight.manual_adjustment THEN "manual"
                                 ELSE "recalculated"
                            ELSE "plain",
               terrain  |-> flight.terrain_elevation_avg,
               height   |-> flight_height,
               sources  |-> flight.sources_used,
               warning  |-> IF RLt(flight_height, RInt(0)) /\ ~flight.recalculated
                            THEN "negative"
                            ELSE IF RLt(RInt(HeightLimit), flight_height)
                                 THEN "above120" ELSE "none",
               recalc_button |-> TRUE ]
    ELSE [ metadata |-> id,
           altitude |-> IF Truthy(md.altitude) THEN md.altitude ELSE None,
           section  |-> IF md.altitude # None THEN "unable" ELSE "none",
           header   |-> "plain",
           terrain  |-> None,
           height   |-> None,
           sources  |-> 0,
           warning  |-> "none",
           recalc_button |-> md.altitude # None ]

NothingShown ==
    [ metadata |-> 0, altitude |-> None, section |-> "none", header |-> "plain",
      terrain |-> None, height |-> None, sources |-> 0, warning |-> "none",
      recalc_button |-> FALSE ]

(***************************************************************************)
(* State                                                                   *)
(***************************************************************************)

VARIABLES
    workers,             \* images of the MetadataWorkers that are running
    heap,                \* the metadata dicts delivered so far; a dict's
                         \* identity is its index
    current_image_path,  \* 0 is None
    current_metadata,    \* identity of the dict, 0 is None
    export_button,       \* export_button.isVisible()
    export_enabled,      \* export_button.isEnabled()
    export_workers,      \* the ExportWorkers that are running: for each the
                         \* image path and the identity of the dict it holds
    export_message,      \* the message box of the last export that ended
    progress_bar,        \* progress_bar.isVisible()
    shown,               \* the content of the metadata panel
    dialog,              \* the open HeightRecalculationDialog: <<>> or <<d>>
    dialog_metadata,     \* identity of the dict the open dialog was given
    last_exec            \* how the last dialog.exec() ended

export_vars == <<export_enabled, export_workers, export_message>>

vars == <<workers, heap, current_image_path, current_metadata, export_button,
          export_vars, progress_bar, shown, dialog,
          dialog_metadata, last_exec>>

main_vars == <<workers, heap, current_image_path, current_metadata,
               export_button, export_vars, progress_bar,
               shown, dialog_metadata, last_exec>>

\* Bounds of the model
MaxRequests == 2

\* Values the user types or picks in the dialog
RasterInputs ==
    { <<Rat(1, 100), Rat(2, 100)>>,         \* axes differ, mean 1.5 cm/px
      <<RInt(1), RInt(-1)>>,                \* identity transform, mean 0
      <<Rat(1, 100), Rat(-3, 100)>>,        \* south-up raster, mean -1 cm/px
      <<Rat(7, 625), Rat(7, 625)>> }        \* 1.12 cm/px on both axes
ResolutionInputs == { Rat(1, 100), Rat(3, 100) }
ReferenceHeightInputs == { 50, 100 }
ReferenceGsdInputs == { Rat(15, 10), Rat(3, 1) }
ManualHeightInputs == { 75 }
PresetInputs == PresetNames \cup { SelectPrompt, ManualSetup }

\* The smaller sets that drive the dialog inside the whole application
AppRasterInputs == { <<Rat(1, 100), Rat(2, 100)>>, <<Rat(1, 100), Rat(-3, 100)>> }
AppResolutionInputs == { Rat(1, 100) }
AppManualHeightInputs == { 150 }
AppPresetInputs == { SelectPrompt, "DJI Phantom 4 PRO" }

Init ==
    /\ workers = <<>>
    /\ heap = <<>>
    /\ current_image_path = 0
    /\ current_metadata = 0
    /\ export_button = FALSE
    /\ export_enabled = TRUE
    /\ export_workers = <<>>
    /\ export_message = "none"
    /\ progress_bar = FALSE
    /\ shown = NothingShown
    /\ dialog = <<>>
    /\ dialog_metadata = 0
    /\ last_exec = "none"

(***************************************************************************)
(* Main window actions                                                     *)
(***************************************************************************)

\* show_height_recalculation_dialog up to dialog.exec(): the dialog opens
\* on the dict with identity id.
OpenDialogOn(id, md) ==
    LET has_flight == md.flight_analysis # <<>>
        flight == md.flight_analysis[1]
    IN  /\ dialog' = << NewDialog(
                IF has_flight THEN flight.flight_height ELSE None,
                IF has_flight THEN flight.gps_altitude ELSE md.altitude,
                IF has_flight THEN flight.terrain_elevation_avg ELSE None) >>
        /\ dialog_metadata' = id

\* A delivered dict that nothing refers to any more (not current_metadata,
\* not the metadata panel's buttons, not an open dialog) is freed.
Freed == [ filename |-> 0, coordinates |-> None, altitude |-> None,
           flight_analysis |-> <<>> ]

Collect(h, roots) == [i \in 1..Len(h) |-> IF i \in roots THEN h[i] ELSE Freed]

\* The dicts the running ExportWorkers hold.
ExportRoots(exports) == {exports[k].metadata : k \in 1..Len(exports)}

\* process_image: an image is dropped on the drop area (the modal dialog
\* blocks the main window while it is open).
process_image(images) ==
    \E image \in images :
        /\ dialog = <<>>
        /\ Len(heap) + Len(workers) < MaxRequests
        /\ current_image_path' = image.path
        /\ export_button' = FALSE
        /\ progress_bar' = TRUE
        /\ workers' = Append(workers, image)
        /\ UNCHANGED <<heap, current_metadata, export_vars,
                       shown, dialog, dialog_metadata, last_exec>>

RemoveAt(seq, i) == [j \in 1..(Len(seq) - 1) |-> IF j < i THEN seq[j] ELSE seq[j + 1]]

\* MetadataWorker.run succeeds and display_metadata receives the dict.  The
\* signal is also delivered while a dialog is open (exec() runs an event
\* loop).  extract_metadata yields no 'flight_analysis', so the branch that
\* opens the dialog for a negative height is never taken here.
display_metadata ==
    \E i \in 1..Len(workers) :
        /\ ~ExtractionRaises(workers[i])
        /\ \E metadata \in {extract_metadata(workers[i])} :
            LET id == Len(heap) + 1
            IN  /\ workers' = RemoveAt(workers, i)
                /\ progress_bar' = FALSE
                /\ current_metadata' = id
                /\ export_button' = TRUE
                /\ IF /\ metadata.flight_analysis # <<>>
                      /\ metadata.flight_analysis[1].flight_height # None
                      /\ RLt(metadata.flight_analysis[1].flight_height, RInt(0))
                   THEN /\ OpenDialogOn(id, metadata)
                        /\ UNCHANGED shown
                   ELSE /\ shown' = display_metadata_content(id, metadata)
                        /\ UNCHANGED <<dialog, dialog_metadata>>
                /\ heap' = Collect(Append(heap, metadata),
                                   {id, shown'.metadata, dialog_metadata'}
                                       \cup ExportRoots(export_workers))
                /\ UNCHANGED <<current_image_path, export_vars, last_exec>>

\* MetadataWorker.run raises and handle_error receives the message.
handle_error ==
    \E i \in 1..Len(workers) :
        /\ ExtractionRaises(workers[i])
        /\ workers' = RemoveAt(workers, i)
        /\ progress_bar' = FALSE
        /\ UNCHANGED <<heap, current_image_path, current_metadata, export_button,
                       export_vars, shown, dialog,
                       dialog_metadata, last_exec>>

\* The recalculation button of the metadata panel is clicked.
recalc_button_clicked ==
    /\ dialog = <<>>
    /\ shown.recalc_button
    /\ OpenDialogOn(shown.metadata, heap[shown.metadata])
    /\ last_exec' = "none"
    /\ UNCHANGED <<workers, heap, current_image_path, current_metadata,
                   export_button, export_vars, progress_bar,
                   shown>>

\* The Accepted branch without the line that sets 'recalculated'.
AcceptedMetadata_NoFlag(md, d) ==
    LET flight == IF md.flight_analysis = <<>>
                  THEN [ gps_altitude          |-> md.altitude,
                         terrain_elevation_avg |-> RInt(0),
                         terrain_elevations    |-> <<>>,
                         sources_used          |-> 0,
                         flight_height         |-> None,
                         recalculated          |-> FALSE,
                         manual_adjustment     |-> FALSE ]
                  ELSE md.flight_analysis[1]
    IN  IF get_recalculated_height(d) # None
        THEN [md EXCEPT !.flight_analysis =
                << [flight EXCEPT !.flight_height = get_recalculated_height(d),
                                  !.manual_adjustment =
                                      IF d.enable_manual_checkbox THEN TRUE ELSE @] >>]
        ELSE md

\* An Accepted branch that also re-derives the terrain elevation from the
\* GPS altitude and the new height.
AcceptedMetadata_RederivesTerrain(md, d) ==
    LET recalculated_height == get_recalculated_height(d)
        gps_altitude == IF md.flight_analysis # <<>>
                        THEN md.flight_analysis[1].gps_altitude ELSE md.altitude
        flight == IF md.flight_analysis = <<>>
                  THEN [ gps_altitude          |-> gps_altitude,
                         terrain_elevation_avg |-> RInt(0),
                         terrain_elevations    |-> <<>>,
                         sources_used          |-> 0,
                         flight_height         |-> None,
                         recalculated          |-> FALSE,
                         manual_adjustment     |-> FALSE ]
                  ELSE [md.flight_analysis[1] EXCEPT !.terrain_elevation_avg =
                           RAdd(gps_altitude, RMul(RInt(-1), recalculated_height))]
    IN  IF recalculated_height # None
        THEN [md EXCEPT !.flight_analysis =
                << [flight EXCEPT !.flight_height = recalculated_height,
                                  !.recalculated = TRUE,
                                  !.manual_adjustment =
                                      IF d.enable_manual_checkbox THEN TRUE ELSE @] >>]
        ELSE md

\* The dict after the Accepted branch of show_height_recalculation_dialog.
AcceptedMetadata(md, d) ==
    LET recalculated_height == get_recalculated_height(d)
        gps_altitude == IF md.flight_analysis # <<>>
                        THEN md.flight_analysis[1].gps_altitude ELSE md.altitude
        terrain_elevation == IF md.flight_analysis # <<>>
                             THEN md.flight_analysis[1].terrain_elevation_avg ELSE None
        flight == IF md.flight_analysis = <<>>
                  THEN [ gps_altitude          |-> gps_altitude,
                         terrain_elevation_avg |-> IF Truthy(terrain_elevation)
                                                   THEN terrain_elevation ELSE RInt(0),
                         terrain_elevations    |-> <<>>,
                         sources_used          |-> 0,
                         flight_height         |-> None,
                         recalculated          |-> FALSE,
                         manual_adjustment     |-> FALSE ]
                  ELSE md.flight_analysis[1]
    IN  IF recalculated_height # None
        THEN [md EXCEPT !.flight_analysis =
                << [flight EXCEPT !.flight_height = recalculated_height,
                                  !.recalculated = TRUE,
                                  !.manual_adjustment =
                                      IF d.enable_manual_checkbox THEN TRUE ELSE @] >>]
        ELSE md

\* The "Recalculate Height" button is clicked: dialog.exec() returns Accepted
\* and show_height_recalculation_dialog runs to its end.
dialog_accept ==
    /\ dialog # <<>>
    /\ dialog[1].calculate_button
    /\ LET md == AcceptedMetadata(heap[dialog_metadata], dialog[1])
       IN  /\ heap' = Collect([heap EXCEPT ![dialog_metadata] = md],
                                {current_metadata, dialog_metadata}
                                    \cup ExportRoots(export_workers))
           /\ shown' = display_metadata_content(dialog_metadata, md)
    /\ dialog' = <<>>
    /\ dialog_metadata' = 0
    /\ last_exec' = "Accepted"
    /\ UNCHANGED <<workers, current_image_path, current_metadata, export_button,
                   export_vars, progress_bar>>

\* A Rejected branch that stores the dialog's height as the Accepted
\* branch does.
dialog_reject_Stores ==
    /\ dialog # <<>>
    /\ LET md == AcceptedMetadata(heap[dialog_metadata], dialog[1])
       IN  /\ heap' = Collect([heap EXCEPT ![dialog_metadata] = md],
                                {current_metadata, dialog_metadata}
                                    \cup ExportRoots(export_workers))
           /\ shown' = display_metadata_content(dialog_metadata, md)
    /\ dialog' = <<>>
    /\ dialog_metadata' = 0
    /\ last_exec' = "Rejected"
    /\ UNCHANGED <<workers, current_image_path, current_metadata, export_button,
                   export_vars, progress_bar>>

\* A Rejected path that ends in display_metadata, which opens the dialog
\* again for a negative height.
dialog_reject_Reopens ==
    /\ dialog # <<>>
    /\ LET md == heap[dialog_metadata]
       IN  IF /\ md.flight_analysis # <<>>
              /\ md.flight_analysis[1].flight_height # None
              /\ RLt(md.flight_analysis[1].flight_height, RInt(0))
           THEN /\ OpenDialogOn(dialog_metadata, md)
                /\ UNCHANGED shown
           ELSE /\ shown' = display_metadata_content(dialog_metadata, md)
                /\ dialog' = <<>>
                /\ dialog_metadata' = 0
    /\ heap' = Collect(heap, {current_metadata, dialog_metadata}
                                    \cup ExportRoots(export_workers))
    /\ last_exec' = "Rejected"
    /\ UNCHANGED <<workers, current_image_path, current_metadata,
                   export_button, export_vars, progress_bar>>

\* Cancel or closing the dialog: dialog.exec() returns Rejected.
dialog_reject ==
    /\ dialog # <<>>
    /\ shown' = display_metadata_content(dialog_metadata, heap[dialog_metadata])
    /\ heap' = Collect(heap, {current_metadata, dialog_metadata}
                                    \cup ExportRoots(export_workers))
    /\ dialog' = <<>>
    /\ dialog_metadata' = 0
    /\ last_exec' = "Rejected"
    /\ UNCHANGED <<workers, current_image_path, current_metadata,
                   export_button, export_vars, progress_bar>>

(***************************************************************************)
(* Export                                                                  *)
(***************************************************************************)

\* export_results that leaves the export button enabled.
export_results_KeepsEnabled ==
    /\ dialog = <<>>
    /\ export_button /\ export_enabled
    /\ current_image_path # 0 /\ current_metadata # 0
    /\ progress_bar' = TRUE
    /\ export_workers' = Append(export_workers,
                                [image_path |-> current_image_path,
                                 metadata   |-> current_metadata])
    /\ UNCHANGED <<workers, heap, current_image_path, current_metadata,
                   export_button, export_enabled, export_message, shown, dialog,
                   dialog_metadata, last_exec>>

\* export_results: the export button (visible and enabled) is clicked and
\* a file name is chosen; an ExportWorker starts on current_image_path and
\* current_metadata.  With the save dialog cancelled nothing changes.
export_results ==
    /\ dialog = <<>>
    /\ export_button /\ export_enabled
    /\ current_image_path # 0 /\ current_metadata # 0
    /\ export_enabled' = FALSE
    /\ progress_bar' = TRUE
    /\ export_workers' = Append(export_workers,
                                [image_path |-> current_image_path,
                                 metadata   |-> current_metadata])
    /\ UNCHANGED <<workers, heap, current_image_path, current_metadata,
                   export_button, export_message, shown, dialog,
                   dialog_metadata, last_exec>>

\* An ExportWorker ends: the slot hides the progress bar, enables the
\* export button and shows the message box.
ExportEnds(i, message) ==
    /\ export_workers' = RemoveAt(export_workers, i)
    /\ progress_bar' = FALSE
    /\ export_enabled' = TRUE
    /\ export_message' = message
    /\ heap' = Collect(heap, {current_metadata, shown.metadata, dialog_metadata}
                                 \cup ExportRoots(export_workers'))
    /\ UNCHANGED <<workers, current_image_path, current_metadata, export_button,
                   shown, dialog, dialog_metadata, last_exec>>

\* ExportWorker.run emits finished and export_finished receives the path.
export_finished ==
    \E i \in 1..Len(export_workers) : ExportEnds(i, "complete")

\* export_error that leaves the progress bar visible.
export_error_KeepsBusy ==
    \E i \in 1..Len(export_workers) :
        /\ export_workers' = RemoveAt(export_workers, i)
        /\ export_enabled' = TRUE
        /\ export_message' = "error"
        /\ UNCHANGED <<workers, heap, current_image_path, current_metadata,
                       export_button, progress_bar, shown, dialog,
                       dialog_metadata, last_exec>>

\* ExportWorker.run emits error (ReportLab is missing, or an exception is
\* raised while the PDF is built) and export_error receives the message.
export_error ==
    \E i \in 1..Len(export_workers) : ExportEnds(i, "error")

(***************************************************************************)
(* Dialog events                                                           *)
(***************************************************************************)

\* "Upload TIFF" clicked: the file dialog is cancelled, or the file cannot
\* be read, or its raster has the pixel sizes res.
upload_tiff(rasters) ==
    /\ dialog # <<>>
    /\ \E file \in {<<"cancelled">>, <<"unreadable">>} \cup {<<"raster", r>> : r \in rasters} :
          dialog' = IF file[1] = "cancelled" THEN dialog
                    ELSE IF file[1] = "unreadable" THEN << upload_tiff_failed(dialog[1]) >>
                    ELSE << upload_tiff_read(dialog[1], file[2]) >>
    /\ UNCHANGED main_vars

\* The user edits the manual resolution spin box.
resolution_edited(values) ==
    /\ dialog # <<>>
    /\ \E v \in values :
          /\ v # dialog[1].manual_resolution_spin
          /\ dialog' = << manual_resolution_spin_setValue(dialog[1], v) >>
    /\ UNCHANGED main_vars

\* The user picks an entry of the drone combo box.
preset_selected(texts) ==
    /\ dialog # <<>>
    /\ \E text \in texts :
          /\ text # dialog[1].preset_combo
          /\ dialog' = << on_preset_changed(dialog[1], text) >>
    /\ UNCHANGED main_vars

\* The user edits the reference height of the manual drone setup.
reference_height_edited(values) ==
    /\ dialog # <<>>
    /\ dialog[1].manual_drone_group
    /\ \E v \in values :
          /\ v # dialog[1].manual_height_spin
          /\ dialog' = << on_manual_drone_changed(
                              [dialog[1] EXCEPT !.manual_height_spin = v]) >>
    /\ UNCHANGED main_vars

\* The user edits the reference GSD of the manual drone setup.
reference_gsd_edited(values) ==
    /\ dialog # <<>>
    /\ dialog[1].manual_drone_group
    /\ \E v \in values :
          /\ v # dialog[1].manual_gsd_spin
          /\ dialog' = << on_manual_drone_changed(
                              [dialog[1] EXCEPT !.manual_gsd_spin = v]) >>
    /\ UNCHANGED main_vars

\* The user clicks the "Adjust Height Manually" button.
manual_toggled ==
    /\ dialog # <<>>
    /\ dialog' = << toggle_manual_adjustment(dialog[1]) >>
    /\ UNCHANGED main_vars

\* The user edits the manual height (visible while manual adjustment is on).
manual_height_edited(values) ==
    /\ dialog # <<>>
    /\ dialog[1].enable_manual_checkbox
    /\ \E v \in values :
          /\ v # dialog[1].manual_height_input
          /\ dialog' = << manual_height_input_setValue(dialog[1], v) >>
    /\ UNCHANGED main_vars

\* The application: the dialog is driven with the small input sets.
Next ==
    \/ process_image(Images)
    \/ display_metadata
    \/ handle_error
    \/ recalc_button_clicked
    \/ dialog_accept
    \/ dialog_reject
    \/ upload_tiff(AppRasterInputs)
    \/ resolution_edited(AppResolutionInputs)
    \/ preset_selected(AppPresetInputs)
    \/ manual_toggled
    \/ manual_height_edited(AppManualHeightInputs)

Spec == Init /\ [][Next]_vars

\* One recalculation instance: the dialog has just been opened from the
\* metadata panel of an image with a GPS altitude, and is driven with the
\* full input sets until it is accepted or cancelled.
InitDialog ==
    \E image \in Images :
        /\ ~ExtractionRaises(image)
        /\ extract_metadata(image).altitude # None
        /\ workers = <<>>
        /\ heap = << extract_metadata(image) >>
        /\ current_image_path = image.path
        /\ current_metadata = 1
        /\ export_button = TRUE
        /\ export_enabled = TRUE
        /\ export_workers = <<>>
        /\ export_message = "none"
        /\ progress_bar = FALSE
        /\ shown = display_metadata_content(1, extract_metadata(image))
        /\ dialog = << NewDialog(None, extract_metadata(image).altitude, None) >>
        /\ dialog_metadata = 1
        /\ last_exec = "none"

NextDialog ==
    \/ dialog_accept
    \/ dialog_reject
    \/ upload_tiff(RasterInputs)
    \/ resolution_edited(ResolutionInputs)
    \/ preset_selected(PresetInputs)
    \/ reference_height_edited(ReferenceHeightInputs)
    \/ reference_gsd_edited(ReferenceGsdInputs)
    \/ manual_toggled
    \/ manual_height_edited(ManualHeightInputs)

SpecDialog == InitDialog /\ [][NextDialog]_vars

\* The extraction and export path of the main window: images are dropped,
\* their workers end in any order, results are exported.
NextWindow ==
    \/ process_image(WindowImages)
    \/ display_metadata
    \/ handle_error
    \/ export_results
    \/ export_finished
    \/ export_error

SpecWindow == Init /\ [][NextWindow]_vars

\* A started QThread runs to the end of run(), and the signal it emits is
\* delivered by the main window's event loop.
FairSpecWindow ==
    /\ Init /\ [][NextWindow]_vars
    /\ WF_vars(display_metadata)
    /\ WF_vars(handle_error)
    /\ WF_vars(export_finished \/ export_error)

(***************************************************************************)
(* Claims                                                                  *)
(***************************************************************************)

\* The step in which dialog.exec() returns Accepted.
AcceptStep == dialog # <<>> /\ dialog' = <<>> /\ last_exec' = "Accepted"

\* C1: whenever the dialog has computed a height from a known resolution r
\* (m/px) and a calibration (g cm/px at a m), the computed height h
\* satisfies h * g = r * 100 * a, and r = 0.015, g = 1.5, a = 50 gives 50.
C1_HeightIsGsdRatio ==
    \A i \in 1..Len(dialog) :
        LET d == dialog[i]
            h == d.calculated_height_label
            r == d.tiff_resolution
            g == d.drone_reference_gsd
            a == d.drone_reference_height
        IN  d.calculate_button =>
              /\ h # None /\ r # None /\ g # None
              /\ h[1] * g[1] * r[2] = r[1] * 100 * a * h[2] * g[2]
              /\ (r = Rat(15, 1000) /\ g = Rat(15, 10) /\ a = 50) => h = RInt(50)

C1_Witness ==
    /\ dialog # <<>>
    /\ dialog[1].calculate_button
    /\ dialog[1].tiff_resolution = Rat(15, 1000)
    /\ dialog[1].drone_reference_gsd = Rat(15, 10)
    /\ dialog[1].drone_reference_height = 50
    /\ dialog[1].calculated_height_label = RInt(50)

\* C2: when the dialog is accepted with manual adjustment active, the
\* accepted flight height is exactly the manual height input and the result
\* carries manual_adjustment = true, whatever height was computed before.
C2_ManualOverrideEchoes ==
    [][AcceptStep /\ dialog[1].enable_manual_checkbox =>
         LET flight == heap'[dialog_metadata].flight_analysis
         IN  /\ flight # <<>>
             /\ flight[1].flight_height = RInt(dialog[1].manual_height_input)
             /\ flight[1].manual_adjustment]_vars

\* A manual 75 m accepted although the dialog had computed another height.
C2_Witness ==
    /\ last_exec = "Accepted"
    /\ dialog = <<>>
    /\ heap[1].flight_analysis # <<>>
    /\ heap[1].flight_analysis[1].manual_adjustment
    /\ heap[1].flight_analysis[1].flight_height = RInt(75)

\* C3 (as claimed): the manual override bypasses the computation, so while
\* manual adjustment is active the dialog can be accepted, also when no
\* resolution or calibration was supplied and after a raster read failure.
C3_ManualOverrideAcceptable ==
    \A i \in 1..Len(dialog) :
        dialog[i].enable_manual_checkbox => dialog[i].calculate_button

\* The image a delivered dict was extracted from, and the elevation sources
\* that have an answer for it.
ImageOf(md) == CHOOSE image \in WindowImages : image.path = md.filename
PresentSamples(image) == {k \in 1..Len(image.samples) : image.samples[k] # None}
Live(i) == heap[i] # Freed

\* C4 (as claimed): after every accepted recalculation the result has
\* recalculated = true and manual_adjustment is true exactly when manual
\* adjustment was active at that acceptance, so the two flags are never both
\* false.
C4_FlagsTellProvenance ==
    [][AcceptStep =>
         LET flight == heap'[dialog_metadata].flight_analysis
         IN  /\ flight # <<>>
             /\ flight[1].recalculated
             /\ flight[1].manual_adjustment <=> dialog[1].enable_manual_checkbox
             /\ flight[1].recalculated \/ flight[1].manual_adjustment]_vars

HeightDefined(md) ==
    md.flight_analysis # <<>> /\ md.flight_analysis[1].flight_height # None
SourcesUsed(md) ==
    IF md.flight_analysis = <<>> THEN 0 ELSE md.flight_analysis[1].sources_used
Recalculated(md) ==
    md.flight_analysis # <<>> /\ md.flight_analysis[1].recalculated

\* C5 (as claimed): in every result, flight_height is defined if and only
\* if sources_used > 0.
C5_HeightDefinedIffSources ==
    \A i \in 1..Len(heap) : HeightDefined(heap[i]) <=> SourcesUsed(heap[i]) > 0

\* C5 (amended): in every result, flight_height is defined if and only if
\* sources_used > 0 or the result is recalculated; a result with
\* sources_used = 0 carries a flight height only from an accepted
\* recalculation.
C5_HeightDefinedIffSourcesOrRecalculated ==
    \A i \in 1..Len(heap) :
        HeightDefined(heap[i]) <=> (SourcesUsed(heap[i]) > 0 \/ Recalculated(heap[i]))

C5_Witness ==
    \E i \in 1..Len(heap) :
        /\ HeightDefined(heap[i])
        /\ SourcesUsed(heap[i]) = 0
        /\ Recalculated(heap[i])
        /\ last_exec = "Accepted"

\* C6 (as claimed): for an image with no present terrain-elevation sample
\* no numeric terrain average is stored in the result or shown for it.
C6_NoFabricatedTerrainAverage ==
    \A i \in 1..Len(heap) :
        (Live(i) /\ PresentSamples(ImageOf(heap[i])) = {}) =>
            /\ heap[i].flight_analysis # <<>> =>
                   heap[i].flight_analysis[1].terrain_elevation_avg = None
            /\ shown.metadata = i => shown.terrain = None

\* C7: while no drone is selected (the reference GSD is absent or zero) the
\* dialog shows no computed height and cannot be accepted, so no height is
\* returned; this holds after every sequence of dialog events.
C7_NoCalibrationNoResult ==
    /\ [](\A i \in 1..Len(dialog) :
             ~Truthy(dialog[i].drone_reference_gsd) =>
                 /\ ~dialog[i].calculate_button
                 /\ dialog[i].calculated_height_label = None)
    /\ [][AcceptStep => Truthy(dialog[1].drone_reference_gsd)]_vars

\* The drone was de-selected after a successful computation.
C7_Witness ==
    /\ dialog # <<>>
    /\ dialog[1].preset_combo = SelectPrompt
    /\ dialog[1].drone_reference_gsd = None
    /\ dialog[1].tiff_resolution # None
    /\ dialog[1].recalculated_height # None
    /\ ~dialog[1].enable_manual_checkbox
    /\ dialog[1].manual_height_input = ManualHeightInputDefault

\* A step of upload_tiff that read a raster whose mean pixel size is not
\* positive and showed it in the resolution label.
ReadsNonPositiveRaster ==
    /\ dialog # <<>> /\ dialog' # <<>>
    /\ dialog'[1].resolution_label # dialog[1].resolution_label
    /\ RLe(dialog'[1].resolution_label, RInt(0))

\* C8 (as claimed): a raster resolution that is zero or negative is
\* rejected: no height is computed from it, and no other resolution is put
\* in its place.
C8_NonPositiveResolutionRejected ==
    [][ReadsNonPositiveRaster =>
         LET r == dialog'[1].tiff_resolution
         IN  /\ ~(dialog'[1].calculate_button /\ r # None /\ RLe(r, RInt(0)))
             /\ (r # None /\ RLt(RInt(0), r)) => r = dialog[1].tiff_resolution]_vars

\* C9 (as claimed): the metadata delivered for an image with a GPS altitude
\* and at least one available terrain-elevation sample contains a flight
\* analysis.
C9_ReconciliationRuns ==
    \A i \in 1..Len(heap) :
        (/\ Live(i)
         /\ ImageOf(heap[i]).GPSAltitude # None
         /\ PresentSamples(ImageOf(heap[i])) # {}) =>
            /\ heap[i].flight_analysis # <<>>
            /\ heap[i].flight_analysis[1].flight_height # None
            /\ heap[i].flight_analysis[1].terrain_elevation_avg # None

RECURSIVE SumOver(_, _)
SumOver(samples, ks) ==
    IF ks = {} THEN RInt(0)
    ELSE LET k == CHOOSE x \in ks : TRUE
         IN  RAdd(samples[k], SumOver(samples, ks \ {k}))

\* The arithmetic mean of the present samples
MeanOfPresent(image) ==
    RDiv(SumOver(image.samples, PresentSamples(image)),
         RInt(Cardinality(PresentSamples(image))))

\* C10 (as claimed): for an image with at least one present sample the
\* result's terrain_elevation_avg is the arithmetic mean of the present
\* samples only.
C10_TerrainAverageIsMean ==
    \A i \in 1..Len(heap) :
        (Live(i) /\ PresentSamples(ImageOf(heap[i])) # {}) =>
            /\ heap[i].flight_analysis # <<>>
            /\ heap[i].flight_analysis[1].terrain_elevation_avg
                   = MeanOfPresent(ImageOf(heap[i]))

\* The height the reconciliation would give for an image: its GPS altitude
\* minus the mean of its present samples.
HeightAboveTerrain(image) ==
    RAdd(image.GPSAltitude, RMul(RInt(-1), MeanOfPresent(image)))

\* C11 (as claimed): every result that is not recalculated and whose image
\* has a GPS altitude and at least one present sample has flight_height =
\* gps_altitude - terrain_elevation_avg and sources_used = the number of
\* present samples; GPS 250 with samples {200, 210} gives 205, 45 and 2.
C11_ReconciledHeightIsDifference ==
    \A i \in 1..Len(heap) :
        (/\ Live(i)
         /\ ~Recalculated(heap[i])
         /\ ImageOf(heap[i]).GPSAltitude # None
         /\ PresentSamples(ImageOf(heap[i])) # {}) =>
            /\ heap[i].flight_analysis # <<>>
            /\ LET flight == heap[i].flight_analysis[1]
               IN  /\ flight.flight_height =
                          RAdd(flight.gps_altitude,
                               RMul(RInt(-1), flight.terrain_elevation_avg))
                   /\ flight.flight_height = HeightAboveTerrain(ImageOf(heap[i]))
                   /\ flight.sources_used =
                          Cardinality(PresentSamples(ImageOf(heap[i])))

\* The step in which display_metadata receives a dict, and that dict.
DeliveryStep == Len(heap') = Len(heap) + 1
Delivered == heap'[Len(heap')]
Escalated == dialog' # <<>> /\ dialog_metadata' = Len(heap')

C13_WarningsFollowThresholds ==
    shown.section = "analysis" =>
        /\ shown.warning = "negative" <=> RLt(shown.height, RInt(0))
        /\ shown.warning = "above120" <=> RLt(RInt(HeightLimit), shown.height)
        /\ (RLe(RInt(0), shown.height) /\ RLe(shown.height, RInt(HeightLimit)))
               => shown.warning = "none"

\* The step in which dialog.exec() returns Rejected.
RejectStep == dialog # <<>> /\ dialog' = <<>> /\ last_exec' = "Rejected"

\* C14: the flight analysis of a result changes only in the step that
\* accepts a recalculation dialog opened on that result, and the changed
\* result has recalculated = true; delivery, dialog events and a cancelled
\* or closed dialog leave every flight analysis (height and flags) as it
\* was, a negative height included.
C14_HeightChangesOnlyByAcceptedDialog ==
    [][/\ \A i \in 1..Len(heap) :
             (heap'[i] # Freed /\ heap'[i].flight_analysis # heap[i].flight_analysis) =>
                 /\ AcceptStep
                 /\ i = dialog_metadata
                 /\ heap'[i].flight_analysis[1].recalculated
       /\ RejectStep => heap'[dialog_metadata] = heap[dialog_metadata]]_vars

\* A dialog opened on a result with a negative height was cancelled and
\* the result is displayed with that height.
C14_Witness ==
    /\ last_exec = "Rejected"
    /\ dialog = <<>>
    /\ shown.section = "analysis"
    /\ RLt(shown.height, RInt(0))
    /\ heap[shown.metadata].flight_analysis[1].flight_height = shown.height

\* A step of upload_tiff that read the raster with the pixel sizes res.
ReadsRaster(res) == dialog # <<>> /\ dialog' = << upload_tiff_read(dialog[1], res) >>

MeanOf(res) == RDiv(RAdd(res[1], res[2]), RInt(2))

\* C15 (as claimed): after a raster has been read, the resolution the
\* height formula uses is the mean of the raster's two pixel sizes, and with
\* a calibration selected the computed height is the formula applied to
\* that mean.
C15_RasterMeanEntersFormula ==
    [][\A res \in RasterInputs :
          ReadsRaster(res) =>
              LET d == dialog'[1]
              IN  /\ d.tiff_resolution = MeanOf(res)
                  /\ (Truthy(d.drone_reference_gsd) /\ Truthy(MeanOf(res))) =>
                         d.calculated_height_label =
                             FlightHeightFormula(MeanOf(res), d.drone_reference_gsd,
                                                 d.drone_reference_height)]_vars

\* A dialog that has only been given the calibration of d: the combo box
\* entry, the manual setup's two values and the reference pair are those of
\* d, everything else is as in a new dialog.
WithCalibrationOf(d) ==
    [NewDialog(d.current_flight_height, d.gps_altitude, d.terrain_elevation)
        EXCEPT !.preset_combo = d.preset_combo,
               !.manual_drone_group = d.manual_drone_group,
               !.manual_height_spin = d.manual_height_spin,
               !.manual_gsd_spin = d.manual_gsd_spin,
               !.drone_reference_height = d.drone_reference_height,
               !.drone_reference_gsd = d.drone_reference_gsd]

\* C16 (as claimed): for a fixed raster and a fixed calibration the height
\* computed after uploading the raster does not depend on the dialog's
\* previous state: it is the height the same upload gives in a dialog that
\* was only given that calibration.
C16_UploadIsDeterministic ==
    [][\A res \in RasterInputs :
          (ReadsRaster(res) /\ Truthy(dialog[1].drone_reference_gsd)) =>
              dialog'[1].calculated_height_label =
                  upload_tiff_read(WithCalibrationOf(dialog[1]), res).calculated_height_label]_vars

\* The dialog can be accepted and manual adjustment is off.
Returns(d) == d.calculate_button /\ ~d.enable_manual_checkbox

\* C17 (as claimed): with the calibration held fixed and manual adjustment
\* off, a step that doubles the resolution doubles the height the dialog
\* returns on acceptance.
C17_DoublingResolutionDoublesHeight ==
    [][(/\ dialog # <<>> /\ dialog' # <<>>
        /\ Returns(dialog[1]) /\ Returns(dialog'[1])
        /\ dialog'[1].drone_reference_gsd = dialog[1].drone_reference_gsd
        /\ dialog'[1].drone_reference_height = dialog[1].drone_reference_height
        /\ dialog'[1].tiff_resolution = RMul(RInt(2), dialog[1].tiff_resolution)) =>
           get_recalculated_height(dialog'[1]) =
               RMul(RInt(2), get_recalculated_height(dialog[1]))]_vars

\* C18: while one of the four named presets is selected the calibration is
\* that preset's GSD (1.36, 2.19, 1.17, 1.82 cm/px) at 50 m, whatever was
\* selected or entered before; while the manual entry is selected it is the
\* pair in the manual setup's two inputs.
C18_PresetSetsCalibration ==
    \A i \in 1..Len(dialog) :
        LET d == dialog[i]
            Is(text, gsd) ==
                d.preset_combo = text =>
                    d.drone_reference_gsd = gsd /\ d.drone_reference_height = 50
        IN  /\ Is("DJI Phantom 4 PRO", Rat(136, 100))
            /\ Is("DJI Phantom 4", Rat(219, 100))
            /\ Is("DJI Mavic 2 PRO", Rat(117, 100))
            /\ Is("DJI Mavic 2 ZOOM", Rat(182, 100))
            /\ d.preset_combo = ManualSetup =>
                   /\ d.drone_reference_gsd = d.manual_gsd_spin
                   /\ d.drone_reference_height = d.manual_height_spin

\* A preset selected after a manual setup with the reference altitude 100 m.
C18_Witness ==
    /\ dialog # <<>>
    /\ dialog[1].preset_combo = "DJI Phantom 4"
    /\ dialog[1].manual_height_spin = 100
    /\ dialog[1].manual_gsd_spin = RInt(3)
    /\ dialog[1].drone_reference_height = 50
    /\ dialog[1].drone_reference_gsd = Rat(219, 100)

\* C19: the dialog can be accepted exactly when both the resolution and the
\* calibration of the computation are known (present and not zero); while
\* none or only one of them is known it cannot be accepted, and every
\* acceptance happens with both known.
C19_AcceptableIffBothKnown ==
    /\ [](\A i \in 1..Len(dialog) :
             dialog[i].calculate_button <=>
                 (Truthy(dialog[i].tiff_resolution) /\ Truthy(dialog[i].drone_reference_gsd)))
    /\ [][AcceptStep => (/\ Truthy(dialog[1].tiff_resolution)
                         /\ Truthy(dialog[1].drone_reference_gsd))]_vars

\* The calibration was known first and the resolution was entered last.
C19_Witness ==
    /\ dialog # <<>>
    /\ dialog[1].calculate_button
    /\ dialog[1].preset_combo = ManualSetup
    /\ dialog[1].tiff_label = "none"
    /\ dialog[1].tiff_resolution = Rat(3, 100)

\* The awaiting-input state of a dialog: no resolution, no calibration, no
\* height, acceptance disabled, manual adjustment off, every input at its
\* initial value.
AwaitingInput(d) ==
    /\ d.tiff_resolution = None
    /\ d.drone_reference_gsd = None
    /\ d.recalculated_height = None
    /\ ~d.calculate_button
    /\ ~d.enable_manual_checkbox
    /\ d = NewDialog(d.current_flight_height, d.gps_altitude, d.terrain_elevation)

\* C20: when dialog.exec() returns, accepted or cancelled, the dialog is
\* gone, and while no dialog is open no flight analysis changes; every
\* dialog that opens is a new one in the awaiting-input state, whatever an
\* earlier dialog was given.
C20_InstancesAreFresh ==
    [][/\ (last_exec' # last_exec /\ last_exec' \in {"Accepted", "Rejected"}) =>
              dialog' = <<>>
       /\ dialog = <<>> =>
              /\ \A i \in 1..Len(heap) :
                     heap'[i] # Freed => heap'[i].flight_analysis = heap[i].flight_analysis
              /\ dialog' # <<>> => AwaitingInput(dialog'[1])]_vars

\* A second dialog on a result whose first recalculation was a manual
\* override, in the awaiting-input state.
C20_Witness ==
    /\ dialog # <<>>
    /\ dialog[1].current_flight_height = RInt(150)
    /\ heap[dialog_metadata].flight_analysis[1].manual_adjustment
    /\ AwaitingInput(dialog[1])

\* A step of upload_tiff whose file could not be read.
ReadFails ==
    /\ dialog # <<>> /\ dialog' # <<>>
    /\ dialog[1].tiff_label # "error" /\ dialog'[1].tiff_label = "error"

\* C21: a raster that cannot be read leaves the dialog open with the
\* resolution, the calibration, the computed height, the height to return
\* and the state of the accept button as they were, and a manual resolution
\* entered after the failure leads to a computation when a calibration is
\* selected.
C21_ReadFailureIsRecoverable ==
    [][/\ ReadFails =>
              /\ dialog'[1] = [dialog[1] EXCEPT !.tiff_label = "error"]
              /\ UNCHANGED main_vars
       /\ (/\ dialog # <<>> /\ dialog' # <<>>
           /\ dialog[1].tiff_label = "error"
           /\ dialog'[1].manual_resolution_spin # dialog[1].manual_resolution_spin
           /\ Truthy(dialog'[1].drone_reference_gsd)) =>
              /\ dialog'[1].tiff_resolution = dialog'[1].manual_resolution_spin
              /\ dialog'[1].calculate_button
              /\ dialog'[1].calculated_height_label =
                     FlightHeightFormula(dialog'[1].manual_resolution_spin,
                                         dialog'[1].drone_reference_gsd,
                                         dialog'[1].drone_reference_height)]_vars

\* No raster was ever read, a read failed, and the height comes from a
\* resolution entered by hand.
C21_Witness ==
    /\ dialog # <<>>
    /\ dialog[1].tiff_label = "error"
    /\ dialog[1].resolution_label = None
    /\ dialog[1].tiff_resolution = Rat(1, 100)
    /\ dialog[1].calculate_button
    /\ dialog[1].calculated_height_label # None

\* C23 (as claimed): when the dialog is accepted with manual adjustment
\* off, the height stored in the result is the GSD formula applied to the
\* dialog's resolution and calibration.
C23_AcceptedHeightIsFormula ==
    [][(AcceptStep /\ ~dialog[1].enable_manual_checkbox) =>
          LET flight == heap'[dialog_metadata].flight_analysis
          IN  /\ flight # <<>>
              /\ flight[1].flight_height =
                     FlightHeightFormula(dialog[1].tiff_resolution,
                                         dialog[1].drone_reference_gsd,
                                         dialog[1].drone_reference_height)]_vars

\* C24: while manual adjustment is active the height the dialog would
\* return is the integer in the manual-height input, which lies in 1..1000;
\* a step that changes the resolution or the calibration and ends with a
\* computed height leaves in that input the computed height truncated to an
\* integer and clamped to 1..1000.
C24_ManualInputIsReturned ==
    /\ [](\A i \in 1..Len(dialog) :
             dialog[i].enable_manual_checkbox =>
                 /\ get_recalculated_height(dialog[i]) = RInt(dialog[i].manual_height_input)
                 /\ dialog[i].manual_height_input \in 1..1000)
    /\ [][(/\ dialog # <<>> /\ dialog' # <<>>
           /\ dialog[1].enable_manual_checkbox
           /\ \/ dialog'[1].tiff_resolution # dialog[1].tiff_resolution
              \/ dialog'[1].drone_reference_gsd # dialog[1].drone_reference_gsd
              \/ dialog'[1].drone_reference_height # dialog[1].drone_reference_height
           /\ dialog'[1].calculate_button) =>
              dialog'[1].manual_height_input =
                  IClamp(PyInt(dialog'[1].calculated_height_label), 1, 1000)]_vars

\* A recomputation with a negative height has put the lower bound 1 in the
\* manual-height input.
C24_Witness ==
    /\ dialog # <<>>
    /\ dialog[1].enable_manual_checkbox
    /\ dialog[1].calculate_button
    /\ RLt(dialog[1].calculated_height_label, RInt(0))
    /\ dialog[1].manual_height_input = 1
    /\ get_recalculated_height(dialog[1]) = RInt(1)

\* C25 (as claimed): in every state of the dialog the resolution the
\* computation uses is the value the manual-resolution input shows, so in
\* a dialog that shows the default 0.05 m/px a selected calibration gives a
\* computed height.
C25_ResolutionIsTheShownValue ==
    \A i \in 1..Len(dialog) :
        /\ dialog[i].tiff_resolution = dialog[i].manual_resolution_spin
        /\ Truthy(dialog[i].drone_reference_gsd) => dialog[i].calculate_button

\* C26: accepting a recalculation of a result that already has a flight
\* analysis changes at most flight_height, recalculated and
\* manual_adjustment; gps_altitude, terrain_elevation_avg, sources_used and
\* the per-source elevations stay as they were.
C26_AcceptChangesOnlyHeightAndFlags ==
    [][(AcceptStep /\ heap[dialog_metadata].flight_analysis # <<>>) =>
          LET old == heap[dialog_metadata].flight_analysis[1]
              new == heap'[dialog_metadata].flight_analysis[1]
          IN  /\ heap'[dialog_metadata].flight_analysis # <<>>
              /\ new.gps_altitude = old.gps_altitude
              /\ new.terrain_elevation_avg = old.terrain_elevation_avg
              /\ new.sources_used = old.sources_used
              /\ new.terrain_elevations = old.terrain_elevations
              /\ heap'[dialog_metadata].filename = heap[dialog_metadata].filename
              /\ heap'[dialog_metadata].altitude = heap[dialog_metadata].altitude]_vars

\* A result was recalculated twice: first by a manual override, then from
\* the GSD.
C26_Witness ==
    /\ last_exec = "Accepted"
    /\ shown.section = "analysis"
    /\ heap[shown.metadata].flight_analysis[1].manual_adjustment
    /\ heap[shown.metadata].flight_analysis[1].flight_height[2] # 1
    /\ heap[shown.metadata].flight_analysis[1].gps_altitude = RInt(250)

\* A step that opens a dialog, and the two ways to open one.
OpensDialog == dialog = <<>> /\ dialog' # <<>>
RecalcButtonPressed ==
    /\ shown.recalc_button
    /\ dialog_metadata' = shown.metadata
    /\ UNCHANGED <<heap, workers, shown>>

\* C27: a dialog opens only in the step that delivers a result (for that
\* result) or when the user presses the recalculate button; when
\* dialog.exec() returns, accepted or cancelled, no dialog is open and the
\* result is displayed with the height it has, a negative one included.
C27_NoAutomaticReopening ==
    [][/\ OpensDialog => (RecalcButtonPressed \/ (DeliveryStep /\ Escalated))
       /\ (last_exec' # last_exec /\ last_exec' \in {"Accepted", "Rejected"}) =>
              /\ dialog' = <<>>
              /\ shown' = display_metadata_content(dialog_metadata, heap'[dialog_metadata])
              /\ shown'.section = "analysis" =>
                     shown'.height =
                         heap'[dialog_metadata].flight_analysis[1].flight_height]_vars

\* An accepted dialog left a negative height, which is displayed with no
\* dialog open.
C27_Witness ==
    /\ last_exec = "Accepted"
    /\ dialog = <<>>
    /\ shown.section = "analysis"
    /\ RLt(shown.height, RInt(0))
    /\ shown.recalc_button

\* The image whose path is current_image_path.
CurrentImage == CHOOSE image \in WindowImages : image.path = current_image_path

\* C22: once no MetadataWorker is running and the image submitted last
\* could be read, current_metadata is the dict extracted from that image
\* (the image named by current_image_path), whatever the order in which
\* the workers ended.
C22_StoredMetadataIsOfLatestImage ==
    (/\ workers = <<>>
     /\ current_image_path # 0
     /\ ~ExtractionRaises(CurrentImage)) =>
        /\ current_metadata # 0
        /\ heap[current_metadata].filename = current_image_path

\* Steps in which a MetadataWorker or an ExportWorker ends, and what the
\* slot of each terminal signal of a MetadataWorker leaves behind.
MetadataWorkerEnds == Len(workers') < Len(workers)
ExportWorkerEnds == Len(export_workers') < Len(export_workers)
FinishedDelivered == Len(heap') = Len(heap) + 1 /\ current_metadata' = Len(heap')
ErrorDelivered == UNCHANGED <<heap, current_metadata, shown, export_button>>

\* C28: a worker that ends delivers one terminal signal, finished or error
\* and not both, and the slot hides the progress bar; the progress bar is
\* hidden whenever no worker runs, and a visible progress bar is eventually
\* hidden.
C28_BusyStateIsCleared ==
    /\ []((workers = <<>> /\ export_workers = <<>>) => ~progress_bar)
    /\ [][/\ MetadataWorkerEnds =>
                /\ Len(workers') = Len(workers) - 1
                /\ FinishedDelivered # ErrorDelivered
                /\ ~progress_bar'
          /\ ExportWorkerEnds =>
                /\ Len(export_workers') = Len(export_workers) - 1
                /\ export_message' \in {"complete", "error"}
                /\ ~progress_bar']_vars
    /\ progress_bar ~> ~progress_bar

\* An export ended with error, then the extraction of an unreadable image
\* ended with error, and the progress bar is hidden.
C28_Witness ==
    /\ export_message = "error"
    /\ current_image_path = 3
    /\ workers = <<>> /\ export_workers = <<>>
    /\ heap # <<>>
    /\ ~progress_bar

C30_ZeroIsAPresentValue ==
    \A i \in 1..Len(heap) :
        Live(i) =>
            LET image == ImageOf(heap[i])
            IN  /\ (image.GPSLatitude # None /\ image.GPSLongitude # None) =>
                       heap[i].coordinates # None
                /\ image.GPSAltitude # None => heap[i].altitude # None
                /\ (shown.metadata = i /\ image.GPSAltitude # None) =>
                       shown.altitude # None

====
